---- MODULE Spec2Model ----
(***************************************************************************)
(* Model of the AnythingLLM agent skill "CrewAI Research"                  *)
(* (crewai/anythingllm-skill/handler.js, runtime.handler).                 *)
(*                                                                         *)
(* A JavaScript string is a sequence of tokens: the literal chunks of a    *)
(* template literal are one token each, variable data is one token per     *)
(* character.  Template interpolation is concatenation, "contains" is the  *)
(* substring relation on token sequences.  Every await of the handler is   *)
(* a separate step, so several invocations interleave at their awaits.     *)
(***************************************************************************)
EXTENDS Integers, Sequences, FiniteSets, TLC

\* ------------------------------------------------------------------ bounds
MaxInv == 2            \* concurrent invocations of the handler
MaxAgents == 2         \* longest agents_used array the service sends

Invocations == 1..MaxInv

\* --------------------------------------------------------- JS value helpers
\* `undefined`: a token sequence no string of the model equals.
Undefined == <<"#undefined">>

\* Truthiness of a string-or-undefined, as `||` tests it.
Truthy(v) == v # Undefined /\ v # <<>>

\* a || b
OrElse(a, b) == IF Truthy(a) THEN a ELSE b

Digit(d) == CASE d = 0 -> "0" [] d = 1 -> "1" [] d = 2 -> "2" [] d = 3 -> "3"
              [] d = 4 -> "4" [] d = 5 -> "5" [] d = 6 -> "6" [] d = 7 -> "7"
              [] d = 8 -> "8" [] d = 9 -> "9"

RECURSIVE NumToStr(_)
\* String(n) for a non-negative integer: its decimal digits.
NumToStr(n) == IF n < 10 THEN <<Digit(n)>>
               ELSE NumToStr(n \div 10) \o <<Digit(n % 10)>>

\* `${v}` for a string-or-undefined.
Str(v) == IF v = Undefined THEN <<"undefined">> ELSE v

RECURSIVE Join(_, _)
\* Array.prototype.join: the elements in order, sep between neighbours.
Join(arr, sep) == IF Len(arr) = 0 THEN <<>>
                  ELSE IF Len(arr) = 1 THEN arr[1]
                  ELSE arr[1] \o sep \o Join(Tail(arr), sep)

\* String.prototype.includes
Contains(s, t) ==
    \E k \in 0..(Len(s) - Len(t)) : SubSeq(s, k + 1, k + Len(t)) = t

Quote(s) == <<"\"">> \o s \o <<"\"">>

\* ------------------------------------------------------------ configuration
DefaultUrl == <<"http://crewai-service:8000">>
DefaultDepth == <<"m", "e", "d", "i", "u", "m">>
CustomUrl == <<"http://research.lan:9000">>
Deep == <<"d", "e", "e", "p">>

\* this.runtimeArgs: possibly undefined (present = FALSE), each setting
\* possibly undefined or the empty string.
RuntimeArgsSet ==
    { [present |-> FALSE, CREWAI_API_URL |-> Undefined, RESEARCH_DEPTH |-> Undefined],
      [present |-> TRUE,  CREWAI_API_URL |-> Undefined, RESEARCH_DEPTH |-> Undefined],
      [present |-> TRUE,  CREWAI_API_URL |-> CustomUrl, RESEARCH_DEPTH |-> Undefined],
      [present |-> TRUE,  CREWAI_API_URL |-> Undefined, RESEARCH_DEPTH |-> Deep],
      [present |-> TRUE,  CREWAI_API_URL |-> CustomUrl, RESEARCH_DEPTH |-> Deep],
      [present |-> TRUE,  CREWAI_API_URL |-> <<>>,      RESEARCH_DEPTH |-> <<>>] }

\* this.runtimeArgs?.X
OptField(args, name) == IF args.present THEN args[name] ELSE Undefined

\* The topic argument of invocation i: distinct, non-empty topics.
TopicOf(i) == <<"t">> \o NumToStr(i)

\* -------------------------------------------------------------------- JSON
\* JSON.stringify of an object literal: fields is a sequence of
\* <<name, text>> pairs, text being the member's JSON text; a member whose
\* value is undefined is left out.
RECURSIVE Members(_)
Members(fields) ==
    IF Len(fields) = 0 THEN <<>>
    ELSE (IF fields[1][2] = Undefined THEN <<>>
          ELSE <<Quote(fields[1][1]) \o <<":">> \o fields[1][2]>>)
         \o Members(Tail(fields))

JSONObject(fields) == <<"{">> \o Join(Members(fields), <<",">>) \o <<"}">>

JSONString(v) == IF v = Undefined THEN Undefined ELSE Quote(v)

JSONArray(arr) ==
    <<"[">> \o Join([k \in 1..Len(arr) |-> Quote(arr[k])], <<",">>) \o <<"]">>

\* body: JSON.stringify({ topic, depth })
RequestBody(topic, depth) ==
    JSONObject(<< <<<<"topic">>, JSONString(topic)>>,
                  <<<<"depth">>, JSONString(depth)>> >>)

\* ----------------------------------------------------- the research service
AgentName(k) == IF k = 1 THEN <<"a">>
                ELSE IF k = 2 THEN <<"b">>
                ELSE <<"c">> \o NumToStr(k)

Agents(n) == [k \in 1..n |-> AgentName(k)]

ResultOk == <<"o", "k">>

\* The JSON values the service may send as a success body: an object with
\* result and duration_seconds, and with or without agents_used.
JsonValues ==
    { [isNull |-> FALSE, has |-> {"result", "duration_seconds"},
       result |-> ResultOk, duration_seconds |-> 12, agents_used |-> <<>>] }
    \cup
    { [isNull |-> FALSE, has |-> {"result", "duration_seconds", "agents_used"},
       result |-> ResultOk, duration_seconds |-> 12, agents_used |-> Agents(n)]
      : n \in 0..MaxAgents }

\* The text of a JSON value, as the service writes it on the wire.
Serialize(d) ==
    IF d.isNull THEN <<"null">>
    ELSE JSONObject(<<
        <<<<"result">>,
          IF "result" \in d.has THEN Quote(d.result) ELSE Undefined>>,
        <<<<"duration_seconds">>,
          IF "duration_seconds" \in d.has THEN NumToStr(d.duration_seconds)
          ELSE Undefined>>,
        <<<<"agents_used">>,
          IF "agents_used" \in d.has THEN JSONArray(d.agents_used)
          ELSE Undefined>> >>)

Boom == <<"b", "o", "o", "m">>

\* What the service may answer: a failure status with a text body (possibly
\* empty), or a success status with a body that is JSON or is not.
ServiceResponses ==
    { [status |-> 500, body |-> b] : b \in {Boom, <<>>} }
    \cup
    { [status |-> 200, body |-> b] :
        b \in {Boom} \cup {Serialize(d) : d \in JsonValues} }

\* response.ok
Ok(status) == status >= 200 /\ status <= 299

\* The JSON texts and the value each one denotes.
ParseTable ==
    [t \in {Serialize(d) : d \in JsonValues} |->
        CHOOSE d \in JsonValues : Serialize(d) = t]

\* response.json(): the value whose text the body is, or a SyntaxError.
JSONParse(text) ==
    IF text \in DOMAIN ParseTable
    THEN [ok |-> TRUE, value |-> ParseTable[text]]
    ELSE [ok |-> FALSE, value |-> CHOOSE d \in JsonValues : TRUE]

NoResponse == [status |-> 0, body |-> <<>>]

\* error.message of the failures the handler can meet
TimeoutMsg == <<"The operation was aborted due to timeout">>
UnreachableMsg == <<"fetch failed">>
SyntaxErrorMsg == <<"Unexpected token in JSON">>
TypeErrorMsg == <<"Cannot read properties of undefined">>
FetchFailures == {TimeoutMsg, UnreachableMsg}

\* AbortSignal.timeout(300000)
TimeoutMs == 300000

\* ------------------------------------------------------------------- state
VARIABLES
    runtimeArgs,   \* this.runtimeArgs of the skill the handler is bound to
    pc,            \* per invocation: idle, awaitFetch, awaitText, awaitJson, done
    baseUrl,       \* per invocation: const baseUrl
    depth,         \* per invocation: const depth
    response,      \* per invocation: const response (NoResponse before fetch settles)
    introspected,  \* per invocation: the messages it passed to this.introspect
    returned,      \* per invocation: the value the handler's promise resolved to
    outcome,       \* per invocation: None, or the return statement it ended at
    error,         \* per invocation: error.message bound by the catch clause
    sent,          \* per invocation: the requests its fetch calls put on the wire
    net,           \* per invocation: the response in flight on its connection
    served         \* per invocation: the response the service gave its request

vars == <<runtimeArgs, pc, baseUrl, depth, response, introspected, returned,
          outcome, error, sent, net, served>>

Terminal == {"Success", "RemoteError", "TransportError"}

\* ------------------------------------------------------- the handler's text
\* const baseUrl = this.runtimeArgs?.CREWAI_API_URL || "http://crewai-service:8000"
ResolveBaseUrl(args) == OrElse(OptField(args, "CREWAI_API_URL"), DefaultUrl)

\* Faulty variant: the depth is read without its default.
ResolveDepthNoDefault(args) == OptField(args, "RESEARCH_DEPTH")

\* const depth = this.runtimeArgs?.RESEARCH_DEPTH || "medium"
ResolveDepth(args) == OrElse(OptField(args, "RESEARCH_DEPTH"), DefaultDepth)

AnnounceText(topic, d) ==
    <<"Sending research request to CrewAI crew: \"">> \o Str(topic)
    \o <<"\" (depth: ">> \o Str(d) \o <<")">>

\* fetch(`${baseUrl}/research`, { method, headers, body, signal })
Request(url, topic, d) ==
    [url |-> url \o <<"/research">>,
     method |-> "POST",
     contentType |-> "application/json",
     body |-> RequestBody(topic, d),
     timeout |-> TimeoutMs]

RemoteNotice(status) == <<"CrewAI returned error: ">> \o NumToStr(status)

\* Faulty variant: the failure text leaves the response body out.
RemoteErrorTextNoBody(status, errBody) ==
    <<"CrewAI research failed (HTTP ">> \o NumToStr(status) \o <<")">>

RemoteErrorText(status, errBody) ==
    <<"CrewAI research failed (HTTP ">> \o NumToStr(status) \o <<"): ">>
    \o errBody

Hint == <<". Make sure the crewai-service container is running and on the same Docker network.">>

TransportNotice(msg) == <<"Failed to reach CrewAI service: ">> \o msg

\* Faulty variant: the transport failure text does not name the base URL.
TransportErrorTextNoUrl(url, msg) ==
    <<"Error contacting CrewAI service: ">> \o msg \o Hint

\* Faulty variant: the transport failure text carries no remediation hint.
TransportErrorTextNoHint(url, msg) ==
    <<"Error contacting CrewAI service at ">> \o url \o <<": ">> \o msg

TransportErrorText(url, msg) ==
    <<"Error contacting CrewAI service at ">> \o url \o <<": ">> \o msg \o Hint

\* data.duration_seconds and data.result: undefined when the member is absent
DurationText(data) ==
    IF "duration_seconds" \in data.has THEN NumToStr(data.duration_seconds)
    ELSE <<"undefined">>

ResultOf(data) == IF "result" \in data.has THEN data.result ELSE Undefined

\* Faulty variant: the agents are joined with a bare comma.
SuccessNoticeComma(data) ==
    <<"Research complete! Took ">> \o DurationText(data)
    \o <<"s using agents: ">> \o Join(data.agents_used, <<",">>)

SuccessNotice(data) ==
    <<"Research complete! Took ">> \o DurationText(data)
    \o <<"s using agents: ">> \o Join(data.agents_used, <<",", " ">>)

\* Evaluating the success template throws a TypeError: data is null, or
\* data.agents_used is undefined and has no join.
TemplateThrows(data) == data.isNull \/ "agents_used" \notin data.has

\* ---------------------------------------------------------------- actions
Init ==
    /\ runtimeArgs \in RuntimeArgsSet
    /\ pc = [i \in Invocations |-> "idle"]
    /\ baseUrl = [i \in Invocations |-> Undefined]
    /\ depth = [i \in Invocations |-> Undefined]
    /\ response = [i \in Invocations |-> NoResponse]
    /\ introspected = [i \in Invocations |-> <<>>]
    /\ returned = [i \in Invocations |-> Undefined]
    /\ outcome = [i \in Invocations |-> "None"]
    /\ sent = [i \in Invocations |-> <<>>]
    /\ net = [i \in Invocations |-> NoResponse]
    /\ served = [i \in Invocations |-> NoResponse]
    /\ error = [i \in Invocations |-> Undefined]

\* handler({ topic }) up to its first await: lines 6-20.
Invoke(i) ==
    /\ pc[i] = "idle"
    /\ baseUrl' = [baseUrl EXCEPT ![i] = ResolveBaseUrl(runtimeArgs)]
    /\ depth' = [depth EXCEPT ![i] = ResolveDepth(runtimeArgs)]
    /\ introspected' = [introspected EXCEPT
                          ![i] = Append(@, AnnounceText(TopicOf(i), depth'[i]))]
    /\ sent' = [sent EXCEPT
                  ![i] = Append(@, Request(baseUrl'[i], TopicOf(i), depth'[i]))]
    /\ pc' = [pc EXCEPT ![i] = "awaitFetch"]
    /\ UNCHANGED <<runtimeArgs, response, returned, outcome, error, net, served>>

\* The service answers the request on connection i with a status and a body.
Serve(i, resp) ==
    /\ pc[i] = "awaitFetch"
    /\ Len(sent[i]) > 0
    /\ served[i] = NoResponse
    /\ net' = [net EXCEPT ![i] = resp]
    /\ served' = [served EXCEPT ![i] = resp]
    /\ UNCHANGED <<runtimeArgs, pc, baseUrl, depth, response, introspected,
                   returned, outcome, error, sent>>

\* Faulty variant: the response is kept in one slot shared by all invocations.
ResponseForShared(i) ==
    IF \E j \in Invocations : net[j] # NoResponse
    THEN net[CHOOSE j \in Invocations : net[j] # NoResponse]
    ELSE NoResponse

\* The response the fetch of invocation i resolves to: the one on its own
\* connection.
ResponseFor(i) == net[i]

\* Faulty variant: the catch clause issues the request again before it returns.
CatchRetry(i, msg) ==
    /\ introspected' = [introspected EXCEPT ![i] = Append(@, TransportNotice(msg))]
    /\ returned' = [returned EXCEPT ![i] = TransportErrorText(baseUrl[i], msg)]
    /\ outcome' = [outcome EXCEPT ![i] = "TransportError"]
    /\ error' = [error EXCEPT ![i] = msg]
    /\ pc' = [pc EXCEPT ![i] = "done"]
    /\ sent' = [sent EXCEPT
                  ![i] = Append(@, Request(baseUrl[i], TopicOf(i), depth[i]))]

\* catch (error) { introspect(...); return `Error contacting ...` }
Catch(i, msg) ==
    /\ introspected' = [introspected EXCEPT ![i] = Append(@, TransportNotice(msg))]
    /\ returned' = [returned EXCEPT ![i] = TransportErrorText(baseUrl[i], msg)]
    /\ outcome' = [outcome EXCEPT ![i] = "TransportError"]
    /\ error' = [error EXCEPT ![i] = msg]
    /\ pc' = [pc EXCEPT ![i] = "done"]
    /\ UNCHANGED sent

\* await fetch(...) resolves: line 15, then the test of line 22.
FetchResolve(i) ==
    /\ pc[i] = "awaitFetch"
    /\ ResponseFor(i) # NoResponse
    /\ response' = [response EXCEPT ![i] = ResponseFor(i)]
    /\ net' = [net EXCEPT ![i] = NoResponse]
    /\ pc' = [pc EXCEPT ![i] = IF Ok(response'[i].status) THEN "awaitJson"
                                ELSE "awaitText"]
    /\ UNCHANGED <<runtimeArgs, baseUrl, depth, introspected, returned,
                   outcome, error, sent, served>>

\* Faulty variant: the fetch is outside the try, so its rejection leaves the handler.
FetchRejectUncaught(i, msg) ==
    /\ pc[i] = "awaitFetch"
    /\ msg = UnreachableMsg => served[i] = NoResponse
    /\ outcome' = [outcome EXCEPT ![i] = "Thrown"]
    /\ error' = [error EXCEPT ![i] = msg]
    /\ pc' = [pc EXCEPT ![i] = "done"]
    /\ net' = [net EXCEPT ![i] = NoResponse]
    /\ UNCHANGED <<runtimeArgs, baseUrl, depth, response, introspected,
                   returned, sent, served>>

\* await fetch(...) rejects: the 300 s signal aborts it, or no connection
\* was made (and then the service answered nothing).
FetchReject(i, msg) ==
    /\ pc[i] = "awaitFetch"
    /\ msg = UnreachableMsg => served[i] = NoResponse
    /\ Catch(i, msg)
    /\ net' = [net EXCEPT ![i] = NoResponse]
    /\ UNCHANGED <<runtimeArgs, baseUrl, depth, response, served>>

\* await response.text() resolves: lines 23-25.
TextResolve(i) ==
    /\ pc[i] = "awaitText"
    /\ LET errBody == response[i].body
       IN /\ introspected' = [introspected EXCEPT
                                ![i] = Append(@, RemoteNotice(response[i].status))]
          /\ returned' = [returned EXCEPT
                            ![i] = RemoteErrorText(response[i].status, errBody)]
    /\ outcome' = [outcome EXCEPT ![i] = "RemoteError"]
    /\ pc' = [pc EXCEPT ![i] = "done"]
    /\ UNCHANGED <<runtimeArgs, baseUrl, depth, response, error, sent, net, served>>

\* const data = await response.json()
DataOf(i) == JSONParse(response[i].body).value

\* await response.json() resolves with data: lines 28-34, and the catch of
\* lines 35-38 when the template of line 31 throws.
JsonResolve(i) ==
    /\ pc[i] = "awaitJson"
    /\ JSONParse(response[i].body).ok
    /\ IF TemplateThrows(DataOf(i))
       THEN Catch(i, TypeErrorMsg)
       ELSE /\ introspected' = [introspected EXCEPT
                                  ![i] = Append(@, SuccessNotice(DataOf(i)))]
            /\ returned' = [returned EXCEPT ![i] = ResultOf(DataOf(i))]
            /\ outcome' = [outcome EXCEPT ![i] = "Success"]
            /\ pc' = [pc EXCEPT ![i] = "done"]
            /\ UNCHANGED <<error, sent>>
    /\ UNCHANGED <<runtimeArgs, baseUrl, depth, response, net, served>>

\* Faulty variant: response.json() is outside the try, so a SyntaxError leaves the
\* handler.
JsonRejectUncaught(i) ==
    /\ pc[i] = "awaitJson"
    /\ ~JSONParse(response[i].body).ok
    /\ outcome' = [outcome EXCEPT ![i] = "Thrown"]
    /\ error' = [error EXCEPT ![i] = SyntaxErrorMsg]
    /\ pc' = [pc EXCEPT ![i] = "done"]
    /\ UNCHANGED <<runtimeArgs, baseUrl, depth, response, introspected,
                   returned, sent, net, served>>

\* await response.json() rejects with a SyntaxError: line 28 is inside the
\* try, so the catch of lines 35-38 runs.
JsonReject(i) ==
    /\ pc[i] = "awaitJson"
    /\ ~JSONParse(response[i].body).ok
    /\ Catch(i, SyntaxErrorMsg)
    /\ UNCHANGED <<runtimeArgs, baseUrl, depth, response, net, served>>

\* The 300 s signal aborts the body read of response.text() or
\* response.json(): the await rejects and the catch runs.
BodyAbort(i) ==
    /\ pc[i] \in {"awaitText", "awaitJson"}
    /\ Catch(i, TimeoutMsg)
    /\ UNCHANGED <<runtimeArgs, baseUrl, depth, response, net, served>>

\* The continuations of invocation i that the event loop runs.
Step(i) ==
    \/ FetchResolve(i)
    \/ \E msg \in FetchFailures : FetchReject(i, msg)
    \/ TextResolve(i)
    \/ JsonResolve(i)
    \/ JsonReject(i)
    \/ BodyAbort(i)

Next ==
    \E i \in Invocations :
        \/ Invoke(i)
        \/ \E resp \in ServiceResponses : Serve(i, resp)
        \/ Step(i)

Spec == Init /\ [][Next]_vars

\* The signal of line 19 settles every pending await within 300 s, and the
\* event loop runs every settled continuation.  The lifecycle does not read
\* the configuration, so the fair specification starts from one
\* configuration: a skill with no runtimeArgs, which runs on the defaults.
FairInit ==
    /\ Init
    /\ ~runtimeArgs.present

FairSpec ==
    /\ FairInit
    /\ [][Next]_vars
    /\ \A i \in Invocations : WF_vars(Step(i))

TypeOK ==
    /\ runtimeArgs \in RuntimeArgsSet
    /\ \A i \in Invocations :
        /\ pc[i] \in {"idle", "awaitFetch", "awaitText", "awaitJson", "done"}
        /\ outcome[i] \in {"None", "Thrown"} \cup Terminal
        /\ Len(sent[i]) \in 0..2

\* ------------------------------------------------------ claim vocabulary
Invoked(i) == pc[i] # "idle"
Done(i) == pc[i] = "done"
Requesting(i) == pc[i] \in {"awaitFetch", "awaitText", "awaitJson"}

\* The settings as configured, before any default is applied.
ConfiguredUrl == OptField(runtimeArgs, "CREWAI_API_URL")
ConfiguredDepth == OptField(runtimeArgs, "RESEARCH_DEPTH")

\* The 300 s bound ran out (during the fetch or during the body read).
TimedOut(i) == error[i] = TimeoutMsg

\* The fetch itself rejected: no response was ever bound.
FetchFailed(i) == Done(i) /\ response[i] = NoResponse

\* The last message passed to this.introspect.
LastNotice(i) == introspected[i][Len(introspected[i])]

\* Invocation i finished on a non-2xx response whose body read completed.
FailureAnswered(i) ==
    /\ Done(i)
    /\ response[i] # NoResponse
    /\ ~Ok(response[i].status)
    /\ ~TimedOut(i)

\* Invocation i finished on a 2xx response whose body read completed.
SuccessAnswered(i) ==
    /\ Done(i)
    /\ response[i] # NoResponse
    /\ Ok(response[i].status)
    /\ ~TimedOut(i)

Parsed(i) == JSONParse(response[i].body)

\* ---------------------------------------------------------------------- C1
\* C1 (as stated): every invocation issues exactly one POST to
\* {baseUrl}/research whose JSON body is {topic, depth}, with the topic and
\* whatever depth value was supplied forwarded unchanged, and never a second
\* request.
C1_AsStated ==
    \A i \in Invocations :
        Invoked(i) =>
            /\ Len(sent[i]) = 1
            /\ sent[i][1].method = "POST"
            /\ sent[i][1].url = baseUrl[i] \o <<"/research">>
            /\ ConfiguredDepth # Undefined =>
                   sent[i][1].body = RequestBody(TopicOf(i), ConfiguredDepth)

\* C1 (amended): every invocation issues exactly one POST to
\* {baseUrl}/research and never a second one, whatever the outcome; the body
\* is {topic, depth} with the topic forwarded unchanged and the depth
\* forwarded unchanged when it is a non-empty string, and "medium" when the
\* supplied depth is absent or the empty string.
C1_OneRequest ==
    \A i \in Invocations :
        /\ ~Invoked(i) => Len(sent[i]) = 0
        /\ Invoked(i) =>
            /\ Len(sent[i]) = 1
            /\ sent[i][1].method = "POST"
            /\ sent[i][1].url = baseUrl[i] \o <<"/research">>
            /\ sent[i][1].body =
                 RequestBody(TopicOf(i),
                             IF ConfiguredDepth \in {Undefined, <<>>}
                             THEN <<"m", "e", "d", "i", "u", "m">>
                             ELSE ConfiguredDepth)

\* An invocation whose request failed has finished with a supplied depth
\* and still one request on the wire.
C1_Witness ==
    \E i \in Invocations :
        /\ FetchFailed(i)
        /\ ConfiguredDepth = Deep
        /\ Len(sent[i]) = 1

\* ---------------------------------------------------------------------- C2
\* C2 (as stated): a 2xx response whose body is not valid JSON ends the
\* invocation with a parse failure that propagates out of the handler.
C2_AsStated ==
    \A i \in Invocations :
        (SuccessAnswered(i) /\ ~Parsed(i).ok) => outcome[i] = "Thrown"

\* C2 (amended): every failure is returned as a value, malformed JSON
\* included: a 2xx response whose body is not valid JSON is caught by the
\* handler's catch clause and returned as the "Error contacting CrewAI
\* service at {baseUrl}: {parse error message}. ..." string of the
\* TransportError path; no exception leaves the handler.
C2_ParseFailureReturned ==
    \A i \in Invocations :
        /\ Done(i) => outcome[i] \in Terminal
        /\ (SuccessAnswered(i) /\ ~Parsed(i).ok) =>
            /\ outcome[i] = "TransportError"
            /\ returned[i] # Undefined
            /\ Contains(returned[i], <<"Error contacting CrewAI service at ">>)
            /\ Contains(returned[i], SyntaxErrorMsg)

C2_Witness ==
    \E i \in Invocations :
        /\ SuccessAnswered(i)
        /\ ~Parsed(i).ok
        /\ error[i] = SyntaxErrorMsg

\* ---------------------------------------------------------------------- C3
\* C3: on a non-2xx response (whose body read completes within the bound)
\* the handler has read the whole body as text, its last progress
\* notification reports the failure status, and the returned string holds
\* the status code and the body text.
C3_RemoteError ==
    \A i \in Invocations :
        FailureAnswered(i) =>
            /\ outcome[i] = "RemoteError"
            /\ Contains(returned[i], NumToStr(served[i].status))
            /\ Contains(returned[i], served[i].body)
            /\ Len(introspected[i]) = 2
            /\ Contains(LastNotice(i), <<"CrewAI returned error: ">>)
            /\ Contains(LastNotice(i), NumToStr(served[i].status))

\* Status 500 with body "boom" was answered and returned.
C3_Witness ==
    \E i \in Invocations :
        /\ FailureAnswered(i)
        /\ served[i] = [status |-> 500, body |-> Boom]
        /\ Contains(returned[i], <<"5", "0", "0">>)
        /\ Contains(returned[i], <<"b", "o", "o", "m">>)

\* ---------------------------------------------------------------------- C4
\* C4: when the request runs into the 300 s bound or no connection can be
\* made, the handler does not throw: the outcome is TransportError and the
\* returned string contains the configured baseUrl, or the default one when
\* none was configured.
C4_TransportError ==
    \A i \in Invocations :
        (FetchFailed(i) \/ (Done(i) /\ TimedOut(i))) =>
            /\ outcome[i] = "TransportError"
            /\ sent[i][1].timeout = 300000
            /\ Contains(returned[i],
                        IF ConfiguredUrl = Undefined
                        THEN <<"http://crewai-service:8000">>
                        ELSE ConfiguredUrl)

C4_Witness ==
    \E i, j \in Invocations :
        /\ FetchFailed(i) /\ error[i] = UnreachableMsg
        /\ Done(j) /\ TimedOut(j)
        /\ ConfiguredUrl = CustomUrl

\* ---------------------------------------------------------------------- C5
\* C5: on a 2xx response whose body parses as {result, duration_seconds,
\* agents_used} the handler returns exactly the result member, and its last
\* progress notification mentions duration_seconds and the agents_used
\* entries joined in order with ", ".
C5_Success ==
    \A i \in Invocations :
        (/\ SuccessAnswered(i)
         /\ Parsed(i).ok
         /\ Parsed(i).value.has = {"result", "duration_seconds", "agents_used"})
        =>
            LET data == Parsed(i).value
                agents == data.agents_used
                joined == IF Len(agents) = 0 THEN <<>>
                          ELSE [k \in 1..(3 * Len(agents) - 2) |->
                                  IF k % 3 = 1 THEN agents[(k + 2) \div 3][1]
                                  ELSE IF k % 3 = 2 THEN "," ELSE " "]
            IN /\ outcome[i] = "Success"
               /\ returned[i] = data.result
               /\ Len(introspected[i]) = 2
               /\ Contains(LastNotice(i), NumToStr(data.duration_seconds))
               /\ Contains(LastNotice(i), <<"s using agents: ">> \o joined)

\* The spec's example: result "ok", 12 seconds, agents "a, b".
C5_Witness ==
    \E i \in Invocations :
        /\ SuccessAnswered(i)
        /\ Parsed(i).ok
        /\ Parsed(i).value.agents_used = <<<<"a">>, <<"b">>>>
        /\ returned[i] = <<"o", "k">>
        /\ Contains(LastNotice(i), <<"1", "2">>)
        /\ Contains(LastNotice(i), <<"a", ",", " ", "b">>)

\* ---------------------------------------------------------------------- C6
\* C6 (as stated): every failure return, TransportError and RemoteError
\* alike, includes the URL the request was attempted at (taken here as the
\* base URL) and a remediation hint.
C6_AsStated ==
    \A i \in Invocations :
        (Done(i) /\ outcome[i] \in {"TransportError", "RemoteError"}) =>
            /\ Contains(returned[i], baseUrl[i])
            /\ Contains(returned[i], <<". Make sure the crewai-service container is running and on the same Docker network.">>)

\* C6 (amended): a TransportError return includes the base URL the request
\* was sent to and a remediation hint; a RemoteError return is exactly
\* "CrewAI research failed (HTTP {status}): {body}" and carries neither a
\* URL nor a hint of its own.
C6_FailureText ==
    \A i \in Invocations :
        /\ (Done(i) /\ outcome[i] = "TransportError") =>
            /\ Contains(returned[i],
                        <<"Error contacting CrewAI service at ">> \o baseUrl[i])
            /\ Contains(returned[i], <<". Make sure the crewai-service container is running and on the same Docker network.">>)
        /\ (Done(i) /\ outcome[i] = "RemoteError") =>
            returned[i] = <<"CrewAI research failed (HTTP ">>
                          \o NumToStr(response[i].status) \o <<"): ">>
                          \o response[i].body

C6_Witness ==
    \E i, j \in Invocations :
        /\ Done(i) /\ outcome[i] = "RemoteError"
        /\ Done(j) /\ outcome[j] = "TransportError"

\* ---------------------------------------------------------------------- C7
\* The locals of invocation i.
Local(i) == <<pc[i], baseUrl[i], depth[i], response[i], introspected[i],
              returned[i], outcome[i], error[i]>>

\* C7: concurrent invocations with distinct topics do not interfere.  In
\* every interleaving the request of an invocation carries its own topic,
\* the response it binds is the one the service gave to its own request,
\* and its outcome and return value are those of that response; no step
\* changes the locals of two invocations, and the configuration they all
\* read is never written.
C7_NoInterference ==
    /\ [](\A i \in Invocations :
            /\ Invoked(i) =>
                 Contains(sent[i][1].body, Quote(<<"t">> \o NumToStr(i)))
            /\ response[i] # NoResponse => response[i] = served[i]
            /\ (Done(i) /\ outcome[i] = "RemoteError") =>
                 /\ ~Ok(served[i].status) /\ served[i] # NoResponse
                 /\ Contains(returned[i], NumToStr(served[i].status))
                 /\ Contains(returned[i], <<"): ">> \o served[i].body)
            /\ (Done(i) /\ outcome[i] = "Success") =>
                 /\ Ok(served[i].status)
                 /\ JSONParse(served[i].body).ok
                 /\ returned[i] = JSONParse(served[i].body).value.result
            /\ (Done(i) /\ outcome[i] = "TransportError") =>
                 Contains(returned[i], error[i]))
    /\ [][/\ runtimeArgs' = runtimeArgs
          /\ \A i, j \in Invocations :
                i # j => ~(Local(i)' # Local(i) /\ Local(j)' # Local(j))]_vars

\* One invocation has finished with its own success while another, invoked
\* in the meantime, still awaits the body of its own failure response.
C7_Witness ==
    \E i, j \in Invocations :
        /\ i # j
        /\ Done(i) /\ outcome[i] = "Success"
        /\ pc[j] = "awaitText"
        /\ served[i] # served[j]

\* ---------------------------------------------------------------------- C8
\* C8: an invocation enters Requesting when it starts, every Requesting
\* invocation eventually reaches one of Success, RemoteError and
\* TransportError, a finished invocation has exactly one of these outcomes,
\* and nothing changes once it is terminal (no second request, no
\* resumption).
C8_Lifecycle ==
    /\ \A i \in Invocations : Requesting(i) ~> (outcome[i] \in Terminal)
    /\ [](\A i \in Invocations :
            /\ Done(i) <=> outcome[i] \in Terminal
            /\ ~Done(i) => outcome[i] = "None")
    /\ [][\A i \in Invocations :
            /\ (pc[i] = "idle" /\ pc'[i] # "idle") => Requesting(i)'
            /\ Done(i) => (Local(i)' = Local(i) /\ sent'[i] = sent[i])]_vars

C8_Witness ==
    \E i, j \in Invocations :
        /\ outcome[i] = "Success"
        /\ outcome[j] = "TransportError"
        /\ Len(sent[i]) = 1 /\ Len(sent[j]) = 1

\* ---------------------------------------------------------------------- C9
\* C9: with no depth configured the depth member of the request body is
\* "medium"; with no baseUrl configured the request goes to
\* http://crewai-service:8000/research.
C9_Defaults ==
    \A i \in Invocations :
        Invoked(i) =>
            /\ ConfiguredDepth = Undefined =>
                 Contains(sent[i][1].body,
                          <<"\"", "depth", "\"", ":",
                            "\"", "m", "e", "d", "i", "u", "m", "\"">>)
            /\ ConfiguredUrl = Undefined =>
                 sent[i][1].url = <<"http://crewai-service:8000", "/research">>

C9_Witness ==
    \E i \in Invocations :
        /\ Invoked(i)
        /\ ~runtimeArgs.present
        /\ Len(sent[i]) = 1

\* --------------------------------------------------------------------- C10
\* C10: a 2xx response whose body is a JSON object without agents_used is
\* handled as if agents_used were empty: the outcome is Success and the
\* handler returns the result member of the body.
C10_AsStated ==
    \A i \in Invocations :
        (/\ SuccessAnswered(i)
         /\ Parsed(i).ok
         /\ "agents_used" \notin Parsed(i).value.has)
        => /\ outcome[i] = "Success"
           /\ returned[i] = Parsed(i).value.result

====
